---- MODULE Spec2Model ----
(***************************************************************************)
(* Model of the recruitment pipeline of employee_recruiter_agent.py:       *)
(* process_candidates drives screen_candidate, schedule_interview and      *)
(* send_interview_invitation over a list of resume paths.  The extractor   *)
(* and the four agents (screening, scheduler, email writer, email sender)  *)
(* are external: every answer they can give is a nondeterministic choice.  *)
(* One action is the code between two awaits of process_candidates.        *)
(* Scores are kept in hundredths (5.0 is 500).                             *)
(***************************************************************************)
EXTENDS Integers, Sequences, FiniteSets, TLC

VARIABLES
    candidate_resume_paths, \* argument of process_candidates
    job_description,        \* argument of process_candidates
    min_score,              \* argument of process_candidates
    pc,                     \* position of process_candidates
    i,                      \* phase 1 loop index (1-based, as enumerate(..., 1))
    k,                      \* phase 2 loop index (1-based)
    resume_cache,           \* path -> extracted text
    all_candidates,         \* list of ScreeningResult
    selected_candidates,    \* list of ScreeningResult
    results,                \* list of CandidateResult
    email_contents,         \* email -> [subject, body]
    error,                  \* the "error" key of the returned dict, None if absent
    scheduled_call,         \* local of the phase 2 iteration
    email_content,          \* local of send_interview_invitation between its awaits
    response,               \* kind of the answer the last external call gave
    calls,                  \* log of the external calls made, in order
    screen_log,             \* per resume path entry: what phase 1 did with it
    sel_row,                \* per selected candidate: index of the row created for it
    sched_log,              \* per selected candidate: what schedule_interview returned
    email_log,              \* per selected candidate: what send_interview_invitation returned
    draft_log,              \* per selected candidate: what the drafting call gave
    raw_text,               \* text_content of a fallback parse taken on its own
    result                  \* what that fallback parse built

vars == <<candidate_resume_paths, job_description, min_score, pc, i, k, resume_cache,
          all_candidates, selected_candidates, results, email_contents, error,
          scheduled_call, email_content, response, calls, screen_log, sel_row, sched_log,
          email_log, draft_log, raw_text, result>>

\* the variables of a fallback parse taken on its own; process_candidates leaves them
fallback_vars == <<raw_text, result>>

---------------------------------------------------------------------------
(* Bounds of the model *)

MaxPaths == 2

(* Program constants *)

DefaultMinScore == 500

---------------------------------------------------------------------------
(* Values *)

\* Python's None.  TLC compares a record with records only, so a str that sits
\* where None can also sit (an Optional[str], the "error" key, a regex group) is
\* wrapped: Text(s) for a str, Error(s) for the error key, Match(g) for a re match.
None == [none |-> TRUE]

Text(s) == [text |-> s]

Error(message) == [message |-> message]

Match(group) == [group |-> group]

NotRun == [notrun |-> TRUE]

Paths == {"a.pdf", "b.pdf"}

JobDescriptions == {"", "Backend Engineer"}

MinScores == {DefaultMinScore}

ExtractedTexts == {"", "resume text"}

ScreeningResult(name, email, score, feedback) ==
    [name |-> name, email |-> email, score |-> score, feedback |-> feedback]

ScheduledCall(name, email, call_time, url) ==
    [name |-> name, email |-> email, call_time |-> call_time, url |-> url]

EmailContent(subject, body) == [subject |-> subject, body |-> body]

\* CandidateResult keeping no feedback in the row
CandidateResultWithoutFeedback(name, email, score, feedback, status) ==
    [name |-> name, email |-> email, score |-> score, feedback |-> "",
     status |-> status, interview_time |-> None, meeting_url |-> None,
     email_subject |-> None]

CandidateResult(name, email, score, feedback, status) ==
    [name |-> name, email |-> email, score |-> score, feedback |-> feedback,
     status |-> status, interview_time |-> None, meeting_url |-> None,
     email_subject |-> None]

---------------------------------------------------------------------------
(* Text: a response text is a sequence of one-character strings.  The      *)
(* operators below compute what the str and re calls of the fallback code  *)
(* compute on ASCII text.                                                  *)

UpperCase == <<"A","B","C","D","E","F","G","H","I","J","K","L","M",
               "N","O","P","Q","R","S","T","U","V","W","X","Y","Z">>

LowerCase == <<"a","b","c","d","e","f","g","h","i","j","k","l","m",
               "n","o","p","q","r","s","t","u","v","w","x","y","z">>

Digits == <<"0","1","2","3","4","5","6","7","8","9">>

\* \d on ASCII text
DigitChars == {Digits[n] : n \in 1..10}

IsDigit(c) == c \in DigitChars

DigitValue(c) == (CHOOSE n \in 1..10 : Digits[n] = c) - 1

\* \w on ASCII text
WordChars ==
    {UpperCase[n] : n \in 1..26} \cup {LowerCase[n] : n \in 1..26} \cup DigitChars \cup {"_"}

IsWord(c) == c \in WordChars

\* \s, and what str.strip() removes
SpaceChars == {" ", "\n", "\r", "\t", "\f"}

IsSpace(c) == c \in SpaceChars

LowerChar(c) ==
    IF \E n \in 1..26 : UpperCase[n] = c
    THEN LowerCase[CHOOSE n \in 1..26 : UpperCase[n] = c]
    ELSE c

\* str.lower()
Lower(t) == [n \in 1..Len(t) |-> LowerChar(t[n])]

\* the text as one string, as it is stored in a model field
RECURSIVE Join(_)
Join(t) == IF t = <<>> THEN "" ELSE t[1] \o Join(Tail(t))

\* pat occurs in t at position s
OccursAt(t, pat, s) ==
    /\ s >= 1
    /\ s + Len(pat) - 1 <= Len(t)
    /\ \A n \in 1..Len(pat) : t[s + n - 1] = pat[n]

\* pat in t
Contains(t, pat) == \E s \in 1..Len(t) : OccursAt(t, pat, s)

\* t[:n]
Take(t, n) == SubSeq(t, 1, IF Len(t) < n THEN Len(t) ELSE n)

\* str.split('\n')
RECURSIVE SplitLines(_)
SplitLines(t) ==
    IF \E n \in 1..Len(t) : t[n] = "\n"
    THEN LET n == CHOOSE m \in 1..Len(t) :
                      t[m] = "\n" /\ \A j \in 1..(m - 1) : t[j] # "\n"
         IN  <<SubSeq(t, 1, n - 1)>> \o SplitLines(SubSeq(t, n + 1, Len(t)))
    ELSE <<t>>

\* str.strip()
Strip(t) ==
    IF \A n \in 1..Len(t) : IsSpace(t[n])
    THEN <<>>
    ELSE LET a == CHOOSE n \in 1..Len(t) :
                      ~IsSpace(t[n]) /\ \A j \in 1..(n - 1) : IsSpace(t[j])
             b == CHOOSE n \in 1..Len(t) :
                      ~IsSpace(t[n]) /\ \A j \in (n + 1)..Len(t) : IsSpace(t[j])
         IN  SubSeq(t, a, b)

\* line.split(':', 1)[1] of a line that holds a colon
AfterFirstColon(line) ==
    LET n == CHOOSE m \in 1..Len(line) :
                 line[m] = ":" /\ \A j \in 1..(m - 1) : line[j] # ":"
    IN  SubSeq(line, n + 1, Len(line))

\* str.replace(' ', '.')
SpacesToDots(t) == [n \in 1..Len(t) |-> IF t[n] = " " THEN "." ELSE t[n]]

\* last position of the longest run of characters of the class that starts at s
\* (s - 1 when t[s] is not in the class)
RunEnd(t, s, class) ==
    CHOOSE e \in (s - 1)..Len(t) :
        /\ \A j \in s..e : t[j] \in class
        /\ e = Len(t) \/ t[e + 1] \notin class

---------------------------------------------------------------------------
(* screen_candidate: fallback parsing of a raw response text *)

DefaultName == <<"U","n","k","n","o","w","n"," ","C","a","n","d","i","d","a","t","e">>

ExampleDomain == <<"@","e","x","a","m","p","l","e",".","c","o","m">>

DefaultScore == 500

ScoreCeiling == 1000

FeedbackLimit == 1000

NamePattern == <<"n","a","m","e",":">>

\* FallbackName taking the text after the token "name:" instead of the first colon
FallbackNameAfterToken(text_content) ==
    IF Contains(Lower(text_content), NamePattern)
    THEN LET lines == SplitLines(text_content)
             n == CHOOSE m \in 1..Len(lines) :
                      /\ Contains(Lower(lines[m]), NamePattern)
                      /\ \A j \in 1..(m - 1) : ~Contains(Lower(lines[j]), NamePattern)
             s == CHOOSE x \in 1..Len(lines[n]) :
                      /\ OccursAt(Lower(lines[n]), NamePattern, x)
                      /\ \A y \in 1..(x - 1) : ~OccursAt(Lower(lines[n]), NamePattern, y)
         IN  Strip(SubSeq(lines[n], s + Len(NamePattern), Len(lines[n])))
    ELSE DefaultName

\* name: the text after the first colon of the first line holding "name:"
FallbackName(text_content) ==
    IF Contains(Lower(text_content), NamePattern)
    THEN LET lines == SplitLines(text_content)
             n == CHOOSE m \in 1..Len(lines) :
                      /\ Contains(Lower(lines[m]), NamePattern)
                      /\ \A j \in 1..(m - 1) : ~Contains(Lower(lines[j]), NamePattern)
         IN  Strip(AfterFirstColon(lines[n]))
    ELSE DefaultName

\* [\w\.-]
EmailChars == WordChars \cup {".", "-"}

IsEmailChar(c) == c \in EmailChars

\* the dots at which [\w\.-]+\.\w+ can split the run that follows the @ at p
EmailDots(t, p) ==
    {q \in (p + 2)..RunEnd(t, p + 1, EmailChars) :
        t[q] = "." /\ q + 1 <= Len(t) /\ IsWord(t[q + 1])}

\* [\w\.-]+@[\w\.-]+\.\w+ matches at s
EmailMatchesAt(t, s) ==
    /\ IsEmailChar(t[s])
    /\ LET p == RunEnd(t, s, EmailChars) + 1
       IN  p <= Len(t) /\ t[p] = "@" /\ EmailDots(t, p) # {}

\* re.search(r'[\w\.-]+@[\w\.-]+\.\w+', t): the leftmost match, greedy; None if none
EmailMatch(t) ==
    IF \E s \in 1..Len(t) : EmailMatchesAt(t, s)
    THEN LET s == CHOOSE m \in 1..Len(t) :
                      EmailMatchesAt(t, m) /\ \A j \in 1..(m - 1) : ~EmailMatchesAt(t, j)
             p == RunEnd(t, s, EmailChars) + 1
             q == CHOOSE d \in EmailDots(t, p) : \A d2 \in EmailDots(t, p) : d2 <= d
         IN  Match(SubSeq(t, s, RunEnd(t, q + 1, WordChars)))
    ELSE None

\* FallbackEmail without .lower()
FallbackEmailKeepingCase(text_content, name) ==
    LET email_match == EmailMatch(text_content)
    IN  IF email_match # None
        THEN email_match.group
        ELSE SpacesToDots(name) \o ExampleDomain

\* email: the first match of the pattern, or the name with dots at example.com
FallbackEmail(text_content, name) ==
    LET email_match == EmailMatch(text_content)
    IN  IF email_match # None
        THEN email_match.group
        ELSE Lower(SpacesToDots(name)) \o ExampleDomain

\* [:\s]
SeparatorChars == SpaceChars \cup {":"}

\* last position of what (\d+\.?\d*) captures from d, where t[d] is a digit
NumberEnd(t, d) ==
    LET a == RunEnd(t, d, DigitChars)
    IN  IF a + 1 <= Len(t) /\ t[a + 1] = "." THEN RunEnd(t, a + 2, DigitChars) ELSE a

\* keyword[:\s]+(\d+\.?\d*) matches at s
KeywordMatchesAt(t, keyword, s) ==
    /\ OccursAt(t, keyword, s)
    /\ LET e == RunEnd(t, s + Len(keyword), SeparatorChars)
       IN  e >= s + Len(keyword) /\ e + 1 <= Len(t) /\ IsDigit(t[e + 1])

\* group(1) of re.search(keyword[:\s]+(\d+\.?\d*), t); None if no match
KeywordCapture(t, keyword) ==
    IF \E s \in 1..Len(t) : KeywordMatchesAt(t, keyword, s)
    THEN LET s == CHOOSE m \in 1..Len(t) :
                      /\ KeywordMatchesAt(t, keyword, m)
                      /\ \A j \in 1..(m - 1) : ~KeywordMatchesAt(t, keyword, j)
             d == RunEnd(t, s + Len(keyword), SeparatorChars) + 1
         IN  Match(SubSeq(t, d, NumberEnd(t, d)))
    ELSE None

SlashTen == <<"/","1","0">>

\* last position of the capture of (\d+\.?\d*)/10 matching at s; 0 if it does not
SlashTenEnd(t, s) ==
    IF ~IsDigit(t[s]) THEN 0
    ELSE LET a == RunEnd(t, s, DigitChars)
         IN  IF OccursAt(t, SlashTen, a + 1) THEN a
             ELSE IF a + 1 <= Len(t) /\ t[a + 1] = "."
                     /\ OccursAt(t, SlashTen, RunEnd(t, a + 2, DigitChars) + 1)
                  THEN RunEnd(t, a + 2, DigitChars)
                  ELSE 0

\* group(1) of re.search(r'(\d+\.?\d*)/10', t); None if no match
SlashTenCapture(t) ==
    IF \E s \in 1..Len(t) : SlashTenEnd(t, s) # 0
    THEN LET s == CHOOSE m \in 1..Len(t) :
                      SlashTenEnd(t, m) # 0 /\ \A j \in 1..(m - 1) : SlashTenEnd(t, j) = 0
         IN  Match(SubSeq(t, s, SlashTenEnd(t, s)))
    ELSE None

RECURSIVE DigitsValue(_)
DigitsValue(ds) ==
    IF ds = <<>> THEN 0
    ELSE 10 * DigitsValue(SubSeq(ds, 1, Len(ds) - 1)) + DigitValue(ds[Len(ds)])

\* float() of a capture of \d+\.?\d*, in hundredths (further decimals are cut)
ParseFloat(capture) ==
    LET a == RunEnd(capture, 1, DigitChars)
        frac == SubSeq(capture, a + 2, Len(capture))
        d1 == IF Len(frac) >= 1 THEN DigitValue(frac[1]) ELSE 0
        d2 == IF Len(frac) >= 2 THEN DigitValue(frac[2]) ELSE 0
    IN  100 * DigitsValue(SubSeq(capture, 1, a)) + 10 * d1 + d2

\* Normalize with >= for >: a score of 10 is divided as well
NormalizeInclusive(score) == IF score >= ScoreCeiling THEN score \div 10 ELSE score

\* if score > 10: score = score / 10
Normalize(score) == IF score > ScoreCeiling THEN score \div 10 ELSE score

ScoreKeyword == <<"s","c","o","r","e">>

RatingKeyword == <<"r","a","t","i","n","g">>

\* FallbackScore with the patterns in another order: 'X/10' before 'score: X'
FallbackScoreSlashFirst(text_content) ==
    LET t == Lower(text_content)
        m1 == KeywordCapture(t, ScoreKeyword)
        m2 == SlashTenCapture(t)
        m3 == KeywordCapture(t, RatingKeyword)
    IN  IF m2 # None THEN Normalize(ParseFloat(m2.group))
        ELSE IF m1 # None THEN Normalize(ParseFloat(m1.group))
        ELSE IF m3 # None THEN Normalize(ParseFloat(m3.group))
        ELSE DefaultScore

\* the loop over score_patterns: the first pattern that matches gives the score
FallbackScore(text_content) ==
    LET t == Lower(text_content)
        m1 == KeywordCapture(t, ScoreKeyword)
        m2 == SlashTenCapture(t)
        m3 == KeywordCapture(t, RatingKeyword)
    IN  IF m1 # None THEN Normalize(ParseFloat(m1.group))
        ELSE IF m2 # None THEN Normalize(ParseFloat(m2.group))
        ELSE IF m3 # None THEN Normalize(ParseFloat(m3.group))
        ELSE DefaultScore

\* the ScreeningResult built from a raw response
FallbackScreening(text_content) ==
    LET name == FallbackName(text_content)
    IN  ScreeningResult(Join(name), Join(FallbackEmail(text_content, name)),
                        FallbackScore(text_content),
                        Join(Take(text_content, FeedbackLimit)))

---------------------------------------------------------------------------
(* schedule_interview: the fallback slot *)

MinDays == 1

MaxDays == 7

MinHour == 10

MaxHour == 17

MinMeetingId == 100000000

MaxMeetingId == 999999999

\* scheduled_time.strftime('%Y-%m-%d %H:%M IST') of now + days at hour:00
CallTime(days, hour, minute, zone) ==
    [days |-> days, hour |-> hour, minute |-> minute, zone |-> zone]

\* f"https://zoom.us/j/{meeting_id}"
ZoomUrl(meeting_id) == [base |-> "https://zoom.us/j/", id |-> meeting_id]

\* the draws of random.randint the model follows: both ends of each range
RandomDraws ==
    {[days |-> MinDays, hour |-> MinHour, meeting_id |-> MinMeetingId],
     [days |-> MaxDays, hour |-> MaxHour, meeting_id |-> MaxMeetingId]}

\* FallbackSchedule with the day offset counted from today (timedelta(days - 1))
FallbackScheduleFromToday(candidate, draw) ==
    ScheduledCall(candidate.name, candidate.email,
                  CallTime(draw.days - 1, draw.hour, 0, "IST"), ZoomUrl(draw.meeting_id))

\* the ScheduledCall of lines 413-424
FallbackSchedule(candidate, draw) ==
    ScheduledCall(candidate.name, candidate.email,
                  CallTime(draw.days, draw.hour, 0, "IST"), ZoomUrl(draw.meeting_id))

---------------------------------------------------------------------------
(* send_interview_invitation: the fallback email *)

DefaultSubject == "Interview Invitation - Backend Engineer Position"

BodyThreshold == 50

SubjectKeyword == <<"s","u","b","j","e","c","t">>

IsLineEnd(c) == c \in {"\n", "\r"}

\* the ends e of a [:\s]+ after the keyword at s that leave a line end after them
SubjectSeparatorEnds(t, s) ==
    {e \in (s + Len(SubjectKeyword))..RunEnd(t, s + Len(SubjectKeyword), SeparatorChars) :
        \E j \in (e + 1)..Len(t) : IsLineEnd(t[j])}

\* subject[:\s]+(.*?)[\n\r] matches at s (re.IGNORECASE)
SubjectMatchesAt(t, s) ==
    /\ OccursAt(Lower(t), SubjectKeyword, s)
    /\ SubjectSeparatorEnds(t, s) # {}

\* group(1) of re.search(r'subject[:\s]+(.*?)[\n\r]', t, re.IGNORECASE); None if none
SubjectCapture(t) ==
    IF \E s \in 1..Len(t) : SubjectMatchesAt(t, s)
    THEN LET s == CHOOSE m \in 1..Len(t) :
                      SubjectMatchesAt(t, m) /\ \A j \in 1..(m - 1) : ~SubjectMatchesAt(t, j)
             e == CHOOSE x \in SubjectSeparatorEnds(t, s) :
                      \A y \in SubjectSeparatorEnds(t, s) : y <= x
             j == CHOOSE x \in (e + 1)..Len(t) :
                      IsLineEnd(t[x]) /\ \A y \in (e + 1)..(x - 1) : ~IsLineEnd(t[y])
         IN  Match(SubSeq(t, e + 1, j - 1))
    ELSE None

FallbackSubject(text_content) ==
    LET subject_match == SubjectCapture(text_content)
    IN  IF subject_match # None
        THEN Text(Join(Strip(subject_match.group)))
        ELSE Text(DefaultSubject)

\* the fixed template of lines 492-508
TemplateBody(candidate, call) ==
    [template |-> "Dear {name}, ... John Doe", name |-> candidate.name,
     call_time |-> call.call_time, url |-> call.url]

\* FallbackBody with >= for >: a text of 50 characters is used as the body
FallbackBodyInclusive(text_content, candidate, call) ==
    IF Len(text_content) >= BodyThreshold
    THEN Text(Join(text_content))
    ELSE TemplateBody(candidate, call)

\* body: the text if it is longer than 50 characters, the template otherwise
FallbackBody(text_content, candidate, call) ==
    IF Len(text_content) > BodyThreshold
    THEN Text(Join(text_content))
    ELSE TemplateBody(candidate, call)

FallbackEmailContent(text_content, candidate, call) ==
    EmailContent(FallbackSubject(text_content), FallbackBody(text_content, candidate, call))

---------------------------------------------------------------------------
(* What the extractor and the agents can answer *)

\* "Name: Dee\nd@x.com\nScore: 7"
RawScreeningDee ==
    <<"N","a","m","e",":"," ","D","e","e","\n","d","@","x",".","c","o",
      "m","\n","S","c","o","r","e",":"," ","7">>

\* "Subject: Hi\nSee you"
RawDraftShort ==
    <<"S","u","b","j","e","c","t",":"," ","H","i","\n","S","e","e"," ",
      "y","o","u">>

\* "We are glad to invite you to an interview next week."
RawDraftLong ==
    <<"W","e"," ","a","r","e"," ","g","l","a","d"," ","t","o"," ","i",
      "n","v","i","t","e"," ","y","o","u"," ","t","o"," ","a","n"," ",
      "i","n","t","e","r","v","i","e","w"," ","n","e","x","t"," ","w",
      "e","e","k",".">>

\* two candidates who share an email, one of them at the default threshold, and a
\* third below it with the same email
StructuredScreenings ==
    {ScreeningResult("Ann", "a@x.com", 700, "Strong match"),
     ScreeningResult("Bob", "a@x.com", 500, "Good match"),
     ScreeningResult("Bob", "a@x.com", 300, "Moderate match")}

RawScreenings == {RawScreeningDee}

RawDrafts == {RawDraftShort, RawDraftLong}

\* response of agent.arun: a structured content, a raw text, no content, or a raise
Structured(content) == [kind |-> "structured", content |-> content]

Raw(text) == [kind |-> "raw", text |-> text]

Empty == [kind |-> "empty"]

Raise == [kind |-> "raise"]

ScreenResponses ==
    {Structured(r) : r \in StructuredScreenings} \cup {Raw(t) : t \in RawScreenings}
        \cup {Empty, Raise}

StructuredCalls ==
    {ScheduledCall("Ann", "a@x.com", CallTime(0, 9, 30, "UTC"),
                   [base |-> "https://meet.example/", id |-> 1])}

ScheduleResponses == {Structured(c) : c \in StructuredCalls} \cup {Raw(<<"o","k">>), Empty, Raise}

StructuredEmails == {EmailContent(Text("Interview"), Text("Dear candidate"))}

DraftResponses ==
    {Structured(c) : c \in StructuredEmails} \cup {Raw(t) : t \in RawDrafts}
        \cup {Empty, Raise}

\* send_response of email_sender_agent.arun: a response, None, or a raise
SendResponses == {[kind |-> "response"], [kind |-> "null"], Raise}

---------------------------------------------------------------------------
(* process_candidates *)

NoResumesError == "No candidate resume files provided"

NoJobDescriptionError == "No job description provided"

\* InputError without the check of lines 543-551
InputErrorWithoutDescriptionCheck(paths, description) ==
    IF paths = <<>> THEN Error(NoResumesError) ELSE None

\* InputError with the two tests of lines 533 and 543 in the other order
InputErrorDescriptionFirst(paths, description) ==
    IF description = "" THEN Error(NoJobDescriptionError)
    ELSE IF paths = <<>> THEN Error(NoResumesError)
    ELSE None

\* the input validation: the error of the early return, None if there is none
InputError(paths, description) ==
    IF paths = <<>> THEN Error(NoResumesError)
    ELSE IF description = "" THEN Error(NoJobDescriptionError)
    ELSE None

\* InitialStatus with <= for <
InitialStatusInclusive(score, threshold) ==
    IF score <= threshold THEN "rejected" ELSE "selected"

\* "rejected" if screening_result.score < min_score else "selected"
InitialStatus(score, threshold) == IF score < threshold THEN "rejected" ELSE "selected"

\* PassesThreshold with the comparison turned round
PassesThresholdReversed(score, threshold) == score <= threshold

\* if screening_result.score >= min_score
PassesThreshold(score, threshold) == score >= threshold

\* ExceptionCaught without the except clause of lines 514-516
ExceptionCaughtButInEmail(step) == step \in {"screen_candidate", "schedule_interview"}

\* the except clauses of the three steps catch every Exception
ExceptionCaught(step) ==
    step \in {"screen_candidate", "schedule_interview", "send_interview_invitation"}

\* the fallback parse of each raw screening response of the model, computed once
ScreeningFallbacks == [t \in RawScreenings |-> FallbackScreening(t)]

\* the fallback subject of each raw draft of the model, computed once
SubjectFallbacks == [t \in RawDrafts |-> FallbackSubject(t)]

\* ScreenReturn without the check of lines 320-322: an empty response is parsed
ScreenReturnParsingEmpty(resp) ==
    CASE resp.kind = "structured" -> resp.content
      [] resp.kind = "raw" -> ScreeningFallbacks[resp.text]
      [] resp.kind = "empty" -> FallbackScreening(<<>>)
      [] resp.kind = "raise" -> None

\* what screen_candidate returns for a response of screening_agent.arun
ScreenReturn(resp) ==
    CASE resp.kind = "structured" -> resp.content
      [] resp.kind = "raw" -> ScreeningFallbacks[resp.text]
      [] resp.kind = "empty" -> None
      [] resp.kind = "raise" -> None

\* ScheduleReturn without the else branch of lines 408-426: a text gives nothing
ScheduleReturnWithoutFallback(resp, candidate, draw) ==
    CASE resp.kind = "structured" -> resp.content
      [] resp.kind = "raw" -> None
      [] resp.kind = "empty" -> None
      [] resp.kind = "raise" -> None

\* what schedule_interview returns for a response of scheduler_agent.arun
ScheduleReturn(resp, candidate, draw) ==
    CASE resp.kind = "structured" -> resp.content
      [] resp.kind = "raw" -> FallbackSchedule(candidate, draw)
      [] resp.kind = "empty" -> None
      [] resp.kind = "raise" -> None

\* what send_interview_invitation returns for a draft that is not an EmailContent
DraftReturn(resp, candidate, call) ==
    CASE resp.kind = "raw" ->
             EmailContent(SubjectFallbacks[resp.text],
                          FallbackBody(resp.text, candidate, call))
      [] resp.kind = "empty" -> None
      [] resp.kind = "raise" -> None

\* what send_interview_invitation returns after the send call
SendReturn(send_response, content) ==
    IF send_response.kind = "response" THEN content ELSE None

\* the row of results the update of phase 2 writes: the first with the email; 0 if none
MatchingRow(rows, email) ==
    IF \E n \in 1..Len(rows) : rows[n].email = email
    THEN CHOOSE n \in 1..Len(rows) :
             rows[n].email = email /\ \A j \in 1..(n - 1) : rows[j].email # email
    ELSE 0

\* UpdateResults without the break of line 622: every row with the email is written
UpdateResultsWithoutBreak(rows, candidate, call, content) ==
    [n \in 1..Len(rows) |->
        IF rows[n].email = candidate.email
        THEN [rows[n] EXCEPT !.interview_time = call.call_time,
                             !.meeting_url = call.url,
                             !.email_subject = IF content # None THEN content.subject ELSE @,
                             !.status = IF content # None THEN "email_sent" ELSE "scheduled"]
        ELSE rows[n]]

\* UpdateResults writing the status only when there is an email content
UpdateResultsStatusOnlyWithEmail(rows, candidate, call, content) ==
    LET n == MatchingRow(rows, candidate.email)
    IN  IF n = 0 THEN rows
        ELSE [rows EXCEPT ![n] =
                 [@ EXCEPT !.interview_time = call.call_time,
                           !.meeting_url = call.url,
                           !.email_subject = IF content # None THEN content.subject ELSE @,
                           !.status = IF content # None THEN "email_sent" ELSE @]]

\* UpdateResults writing the candidate's name to the row as well
UpdateResultsRenaming(rows, candidate, call, content) ==
    LET n == MatchingRow(rows, candidate.email)
    IN  IF n = 0 THEN rows
        ELSE [rows EXCEPT ![n] =
                 [@ EXCEPT !.name = candidate.name,
                           !.interview_time = call.call_time,
                           !.meeting_url = call.url,
                           !.email_subject = IF content # None THEN content.subject ELSE @,
                           !.status = IF content # None THEN "email_sent" ELSE "scheduled"]]

\* for result in results: if result.email == candidate.email: ...; break
UpdateResults(rows, candidate, call, content) ==
    LET n == MatchingRow(rows, candidate.email)
    IN  IF n = 0 THEN rows
        ELSE [rows EXCEPT ![n] =
                 [@ EXCEPT !.interview_time = call.call_time,
                           !.meeting_url = call.url,
                           !.email_subject = IF content # None THEN content.subject ELSE @,
                           !.status = IF content # None THEN "email_sent" ELSE "scheduled"]]

\* email_contents[candidate.email] = {...}, made inside the same loop
UpdateEmailContents(contents, rows, candidate, content) ==
    IF MatchingRow(rows, candidate.email) # 0 /\ content # None
    THEN [e \in DOMAIN contents \cup {candidate.email} |->
             IF e = candidate.email
             THEN [subject |-> content.subject, body |-> content.body]
             ELSE contents[e]]
    ELSE contents

Call(cap, who) == [cap |-> cap, who |-> who]

Init ==
    /\ candidate_resume_paths \in UNION {[1..n -> Paths] : n \in 0..MaxPaths}
    /\ job_description \in JobDescriptions
    /\ min_score \in MinScores
    /\ pc = "start"
    /\ i = 1
    /\ k = 1
    /\ resume_cache = <<>>
    /\ all_candidates = <<>>
    /\ selected_candidates = <<>>
    /\ results = <<>>
    /\ email_contents = <<>>
    /\ error = None
    /\ scheduled_call = None
    /\ email_content = None
    /\ response = "none"
    /\ calls = <<>>
    /\ screen_log = <<>>
    /\ sel_row = <<>>
    /\ sched_log = <<>>
    /\ email_log = <<>>
    /\ draft_log = <<>>
    /\ raw_text = <<>>
    /\ result = None

\* lines 533-560
Validate ==
    /\ pc = "start"
    /\ error' = InputError(candidate_resume_paths, job_description)
    /\ pc' = IF error' = None THEN "screen" ELSE "done"
    /\ UNCHANGED <<candidate_resume_paths, job_description, min_score, i, k, resume_cache,
                   all_candidates, selected_candidates, results, email_contents,
                   scheduled_call, email_content, response, calls, screen_log, sel_row,
                   sched_log, email_log, draft_log>>
    /\ UNCHANGED fallback_vars

\* EndScreening as a pipeline: phase 2 starts as soon as a candidate is selected
EndScreeningInterleaved(selected) ==
    /\ i' = i + 1
    /\ pc' = IF selected # <<>> THEN "schedule"
             ELSE IF i < Len(candidate_resume_paths) THEN "screen"
             ELSE "done"

\* EndScreening that never reaches the return when nobody was selected
EndScreeningWithoutReturn(selected) ==
    /\ i' = i + 1
    /\ pc' = IF i < Len(candidate_resume_paths) THEN "screen"
             ELSE IF selected # <<>> THEN "schedule"
             ELSE "waiting"

\* the end of one iteration of the phase 1 loop, and of the loop after the last path
EndScreening(selected) ==
    /\ i' = i + 1
    /\ pc' = IF i < Len(candidate_resume_paths) THEN "screen"
             ELSE IF selected # <<>> THEN "schedule"
             ELSE "done"

\* one iteration of phase 1 in which extract_text_from_pdf returns "" (lines 293-297, 590)
ScreenExtractFailed ==
    /\ pc = "screen"
    /\ candidate_resume_paths[i] \notin DOMAIN resume_cache
    /\ calls' = Append(calls, Call("extract", i))
    /\ response' = "none"
    /\ screen_log' = Append(screen_log, "extract_failed")
    /\ EndScreening(selected_candidates)
    /\ UNCHANGED <<candidate_resume_paths, job_description, min_score, k, resume_cache,
                   all_candidates, selected_candidates, results, email_contents, error,
                   scheduled_call, email_content, sel_row, sched_log, email_log,
                   draft_log>>
    /\ UNCHANGED fallback_vars

\* one iteration of phase 1 in which the resume text is there (lines 293-381, 569-590)
ScreenCandidate ==
    /\ pc = "screen"
    /\ LET file_path == candidate_resume_paths[i]
           cached == file_path \in DOMAIN resume_cache
       IN  \E resume_text \in ExtractedTexts \ {""}, resp \in ScreenResponses :
             /\ cached => resume_text = resume_cache[file_path]
             /\ resume_cache' = IF cached THEN resume_cache
                                ELSE [f \in DOMAIN resume_cache \cup {file_path} |->
                                         IF f = file_path THEN resume_text
                                         ELSE resume_cache[f]]
             /\ calls' = calls \o (IF cached THEN <<>> ELSE <<Call("extract", i)>>)
                               \o <<Call("screen", i)>>
             /\ response' = resp.kind
             /\ IF resp.kind = "raise" /\ ~ExceptionCaught("screen_candidate")
                THEN /\ pc' = "raised"
                     /\ UNCHANGED <<i, all_candidates, selected_candidates, results,
                                    screen_log, sel_row>>
                ELSE LET screening_result == ScreenReturn(resp)
                     IN  IF screening_result # None
                         THEN /\ all_candidates' = Append(all_candidates, screening_result)
                              /\ results' = Append(results,
                                    CandidateResult(screening_result.name,
                                                    screening_result.email,
                                                    screening_result.score,
                                                    screening_result.feedback,
                                                    InitialStatus(screening_result.score,
                                                                  min_score)))
                              /\ IF PassesThreshold(screening_result.score, min_score)
                                 THEN /\ selected_candidates' =
                                            Append(selected_candidates, screening_result)
                                      /\ sel_row' = Append(sel_row, Len(results) + 1)
                                 ELSE UNCHANGED <<selected_candidates, sel_row>>
                              /\ screen_log' = Append(screen_log, "screened")
                              /\ EndScreening(selected_candidates')
                         ELSE /\ screen_log' = Append(screen_log, "screen_failed")
                              /\ EndScreening(selected_candidates)
                              /\ UNCHANGED <<all_candidates, selected_candidates, results,
                                             sel_row>>
    /\ UNCHANGED <<candidate_resume_paths, job_description, min_score, k, email_contents,
                   error, scheduled_call, email_content, sched_log, email_log, draft_log>>
    /\ UNCHANGED fallback_vars

\* EndInterview with a retry: a candidate whose scheduling gave nothing is tried again
EndInterviewRetrying ==
    /\ k' = IF scheduled_call = None THEN k ELSE k + 1
    /\ pc' = IF scheduled_call = None \/ k < Len(selected_candidates)
             THEN "schedule" ELSE "done"
    /\ scheduled_call' = None
    /\ email_content' = None

\* the end of one iteration of the phase 2 loop, and of the loop after the last candidate
EndInterview ==
    /\ k' = k + 1
    /\ pc' = IF k < Len(selected_candidates) THEN "schedule" ELSE "done"
    /\ scheduled_call' = None
    /\ email_content' = None

\* lines 608-622, after send_interview_invitation has returned content
RecordInvitation(candidate, content) ==
    /\ results' = UpdateResults(results, candidate, scheduled_call, content)
    /\ email_contents' = UpdateEmailContents(email_contents, results, candidate, content)
    /\ email_log' = Append(email_log, content)
    /\ EndInterview

\* schedule_interview for selected_candidates[k] (lines 601-603, 623-624, 384-430)
ScheduleInterview ==
    /\ pc = "schedule"
    /\ \E resp \in ScheduleResponses, draw \in RandomDraws :
         /\ calls' = Append(calls, Call("schedule", k))
         /\ response' = resp.kind
         /\ IF resp.kind = "raise" /\ ~ExceptionCaught("schedule_interview")
            THEN /\ pc' = "raised"
                 /\ UNCHANGED <<k, scheduled_call, email_content, sched_log, email_log,
                                draft_log>>
            ELSE LET call == ScheduleReturn(resp, selected_candidates[k], draw)
                 IN  /\ sched_log' = Append(sched_log, call)
                     /\ IF call # None
                        THEN /\ scheduled_call' = call
                             /\ pc' = "draft"
                             /\ UNCHANGED <<k, email_content, email_log, draft_log>>
                        ELSE /\ email_log' = Append(email_log, NotRun)
                             /\ draft_log' = Append(draft_log, "notrun")
                             /\ EndInterview
    /\ UNCHANGED <<candidate_resume_paths, job_description, min_score, i, resume_cache,
                   all_candidates, selected_candidates, results, email_contents, error,
                   screen_log, sel_row>>
    /\ UNCHANGED fallback_vars

\* send_interview_invitation up to its second await (lines 605, 433-456, 476-516), and
\* the update of lines 608-622 when it returns without sending
DraftEmail ==
    /\ pc = "draft"
    /\ \E resp \in DraftResponses :
         /\ calls' = Append(calls, Call("draft", k))
         /\ response' = resp.kind
         /\ draft_log' = Append(draft_log, IF resp.kind \in {"empty", "raise"}
                                           THEN "failed" ELSE resp.kind)
         /\ IF resp.kind = "raise" /\ ~ExceptionCaught("send_interview_invitation")
            THEN /\ pc' = "raised"
                 /\ UNCHANGED <<k, results, email_contents, scheduled_call, email_content,
                                email_log>>
            ELSE IF resp.kind = "structured"
            THEN /\ email_content' = resp.content
                 /\ pc' = "send"
                 /\ UNCHANGED <<k, results, email_contents, scheduled_call, email_log>>
            ELSE RecordInvitation(selected_candidates[k],
                                  DraftReturn(resp, selected_candidates[k],
                                              scheduled_call))
    /\ UNCHANGED <<candidate_resume_paths, job_description, min_score, i, resume_cache,
                   all_candidates, selected_candidates, error, screen_log, sel_row,
                   sched_log>>
    /\ UNCHANGED fallback_vars

\* the send call of send_interview_invitation (lines 458-475, 514-516), and the update
\* of lines 608-622
SendEmail ==
    /\ pc = "send"
    /\ \E send_response \in SendResponses :
         /\ calls' = Append(calls, Call("send", k))
         /\ response' = send_response.kind
         /\ IF send_response.kind = "raise" /\ ~ExceptionCaught("send_interview_invitation")
            THEN /\ pc' = "raised"
                 /\ UNCHANGED <<k, results, email_contents, scheduled_call, email_content,
                                email_log>>
            ELSE RecordInvitation(selected_candidates[k],
                                  SendReturn(send_response, email_content))
    /\ UNCHANGED <<candidate_resume_paths, job_description, min_score, i, resume_cache,
                   all_candidates, selected_candidates, error, screen_log, sel_row,
                   sched_log, draft_log>>
    /\ UNCHANGED fallback_vars

Next ==
    \/ Validate
    \/ ScreenExtractFailed
    \/ ScreenCandidate
    \/ ScheduleInterview
    \/ DraftEmail
    \/ SendEmail

Spec == Init /\ [][Next]_vars

\* Init with the first path entry named a.pdf: the code uses a path as the argument of
\* the extractor and as the key of the cache only, so the two names can be exchanged
FairInit ==
    /\ Init
    /\ candidate_resume_paths # <<>> => candidate_resume_paths[1] = "a.pdf"

\* process_candidates is one coroutine that awaits each call in turn (lines 569, 601,
\* 605, 468): once a call has returned or raised, the statements after it run
FairSpec == FairInit /\ [][Next]_vars /\ WF_vars(Next)

---------------------------------------------------------------------------
(* The fallback parse of screen_candidate taken on its own: lines 328-375 applied  *)
(* to a response text, which is never empty (lines 320-322).                      *)

MaxLines == 2

\* lines a screening response can hold
ResponseLines ==
    {
     \* "Name: Al B"
     <<"N","a","m","e",":"," ","A","l"," ","B">>,
     \* "Re: name:  Cy "
     <<"R","e",":"," ","n","a","m","e",":"," "," ","C","y"," ">>,
     \* "a@x.io"
     <<"a","@","x",".","i","o">>,
     \* "mail b-c@y.co.uk now"
     <<"m","a","i","l"," ","b","-","c","@","y",".","c","o",".","u","k"," ","n","o","w">>,
     \* "Score: 7"
     <<"S","c","o","r","e",":"," ","7">>,
     \* "score 15"
     <<"s","c","o","r","e"," ","1","5">>,
     \* "8.5/10"
     <<"8",".","5","/","1","0">>,
     \* "Rating: 10"
     <<"R","a","t","i","n","g",":"," ","1","0">>,
     \* "9/10 SCORE: 6"
     <<"9","/","1","0"," ","S","C","O","R","E",":"," ","6">>,
     \* "no data"
     <<"n","o"," ","d","a","t","a">>,
     \* "rating 150"
     <<"r","a","t","i","n","g"," ","1","5","0">>,
     \* "12/10"
     <<"1","2","/","1","0">>,
     \* "Score: 10.5"
     <<"S","c","o","r","e",":"," ","1","0",".","5">>}

\* '\n'.join(lines)
RECURSIVE JoinLines(_)
JoinLines(lines) ==
    IF Len(lines) = 1 THEN lines[1]
    ELSE lines[1] \o <<"\n">> \o JoinLines(Tail(lines))

\* the response texts of one to MaxLines lines
ResponseTexts ==
    UNION {{JoinLines(lines) : lines \in [1..n -> ResponseLines]} : n \in 1..MaxLines}

FallbackInit ==
    /\ raw_text \in ResponseTexts
    /\ result = None
    /\ pc = "fallback"
    /\ candidate_resume_paths = <<>>
    /\ job_description = ""
    /\ min_score = DefaultMinScore
    /\ i = 1
    /\ k = 1
    /\ resume_cache = <<>>
    /\ all_candidates = <<>>
    /\ selected_candidates = <<>>
    /\ results = <<>>
    /\ email_contents = <<>>
    /\ error = None
    /\ scheduled_call = None
    /\ email_content = None
    /\ response = "raw"
    /\ calls = <<>>
    /\ screen_log = <<>>
    /\ sel_row = <<>>
    /\ sched_log = <<>>
    /\ email_log = <<>>
    /\ draft_log = <<>>

\* lines 328-375 of screen_candidate
ParseScreening ==
    /\ pc = "fallback"
    /\ result' = FallbackScreening(raw_text)
    /\ pc' = "returned"
    /\ UNCHANGED <<candidate_resume_paths, job_description, min_score, i, k, resume_cache,
                   all_candidates, selected_candidates, results, email_contents, error,
                   scheduled_call, email_content, response, calls, screen_log, sel_row,
                   sched_log, email_log, draft_log, raw_text>>

FallbackNext == ParseScreening

FallbackSpec == FallbackInit /\ [][FallbackNext]_vars

---------------------------------------------------------------------------
(* The fallback of send_interview_invitation taken on its own: lines 476-512     *)
(* applied to a draft text, which is never empty (lines 450-452), for a candidate *)
(* and a scheduled call.                                                         *)

\* lines a draft can hold
DraftLines ==
    {
     \* "Subject: Hi "
     <<"S","u","b","j","e","c","t",":"," ","H","i"," ">>,
     \* "SUBJECT  Interview on Monday"
     <<"S","U","B","J","E","C","T"," "," ","I","n","t","e","r","v","i","e","w"," ","o",
       "n"," ","M","o","n","d","a","y">>,
     \* "Dear Ann, see you there"
     <<"D","e","a","r"," ","A","n","n",","," ","s","e","e"," ","y","o","u"," ","t","h",
       "e","r","e">>,
     \* "subject:"
     <<"s","u","b","j","e","c","t",":">>,
     \* "We look forward to meeting you on Monday at ten am" (50 characters)
     <<"W","e"," ","l","o","o","k"," ","f","o","r","w","a","r","d"," ","t","o"," ","m",
       "e","e","t","i","n","g"," ","y","o","u"," ","o","n"," ","M","o","n","d","a","y",
       " ","a","t"," ","t","e","n"," ","a","m">>,
     \* "We look forward to meeting you on Monday at ten am." (51 characters)
     <<"W","e"," ","l","o","o","k"," ","f","o","r","w","a","r","d"," ","t","o"," ","m",
       "e","e","t","i","n","g"," ","y","o","u"," ","o","n"," ","M","o","n","d","a","y",
       " ","a","t"," ","t","e","n"," ","a","m",".">>}

\* the draft texts of one to MaxLines lines
DraftTexts ==
    UNION {{JoinLines(lines) : lines \in [1..n -> DraftLines]} : n \in 1..MaxLines}

DraftInit ==
    /\ raw_text \in DraftTexts
    /\ result = None
    /\ pc = "draft_fallback"
    /\ selected_candidates \in {<<candidate>> : candidate \in StructuredScreenings}
    /\ k = 1
    /\ scheduled_call \in StructuredCalls
                          \cup {FallbackSchedule(selected_candidates[k], draw) :
                                    draw \in RandomDraws}
    /\ candidate_resume_paths = <<>>
    /\ job_description = ""
    /\ min_score = DefaultMinScore
    /\ i = 1
    /\ resume_cache = <<>>
    /\ all_candidates = <<>>
    /\ results = <<>>
    /\ email_contents = <<>>
    /\ error = None
    /\ email_content = None
    /\ response = "raw"
    /\ calls = <<>>
    /\ screen_log = <<>>
    /\ sel_row = <<>>
    /\ sched_log = <<>>
    /\ email_log = <<>>
    /\ draft_log = <<>>

\* lines 476-512 of send_interview_invitation
ParseDraft ==
    /\ pc = "draft_fallback"
    /\ result' = FallbackEmailContent(raw_text, selected_candidates[k], scheduled_call)
    /\ pc' = "drafted"
    /\ UNCHANGED <<candidate_resume_paths, job_description, min_score, i, k, resume_cache,
                   all_candidates, selected_candidates, results, email_contents, error,
                   scheduled_call, email_content, response, calls, screen_log, sel_row,
                   sched_log, email_log, draft_log, raw_text>>

DraftNext == ParseDraft

DraftSpec == DraftInit /\ [][DraftNext]_vars

---------------------------------------------------------------------------
(* The resume cache of screen_candidate taken on its own: lines 293-302 applied   *)
(* to the path entries of one run in order (line 566), with a cache that starts   *)
(* empty (line 556) and an extractor that may return another text each time.     *)

MaxRefs == 3

\* the texts extract_text_from_pdf can return for a path
CacheTexts == ExtractedTexts \cup {"resume text, revised"}

CacheInit ==
    /\ candidate_resume_paths \in UNION {[1..n -> Paths] : n \in 1..MaxRefs}
    /\ i = 1
    /\ resume_cache = <<>>
    /\ calls = <<>>
    /\ result = None
    /\ pc = "lookup"
    /\ job_description = "Backend Engineer"
    /\ min_score = DefaultMinScore
    /\ k = 1
    /\ all_candidates = <<>>
    /\ selected_candidates = <<>>
    /\ results = <<>>
    /\ email_contents = <<>>
    /\ error = None
    /\ scheduled_call = None
    /\ email_content = None
    /\ response = "none"
    /\ screen_log = <<>>
    /\ sel_row = <<>>
    /\ sched_log = <<>>
    /\ email_log = <<>>
    /\ draft_log = <<>>
    /\ raw_text = <<>>

\* LookupResume caching whatever the extractor returned
LookupResumeCachingEmpty ==
    /\ pc = "lookup"
    /\ i <= Len(candidate_resume_paths)
    /\ LET resume_path == candidate_resume_paths[i]
       IN  IF resume_path \notin DOMAIN resume_cache
           THEN \E resume_text \in CacheTexts :
                  /\ calls' = Append(calls, Call("extract", i))
                  /\ resume_cache' = [f \in DOMAIN resume_cache \cup {resume_path} |->
                                         IF f = resume_path THEN resume_text
                                         ELSE resume_cache[f]]
                  /\ result' = IF resume_text = "" THEN None ELSE Text(resume_text)
           ELSE /\ calls' = calls
                /\ resume_cache' = resume_cache
                /\ result' = Text(resume_cache[resume_path])
    /\ i' = i + 1
    /\ UNCHANGED <<candidate_resume_paths, job_description, min_score, pc, k,
                   all_candidates, selected_candidates, results, email_contents, error,
                   scheduled_call, email_content, response, screen_log, sel_row,
                   sched_log, email_log, draft_log, raw_text>>

\* lines 293-302 for the i-th path entry; result is the resume_text of line 302, or
\* None when screen_candidate returned at line 297
LookupResume ==
    /\ pc = "lookup"
    /\ i <= Len(candidate_resume_paths)
    /\ LET resume_path == candidate_resume_paths[i]
       IN  IF resume_path \notin DOMAIN resume_cache
           THEN \E resume_text \in CacheTexts :
                  /\ calls' = Append(calls, Call("extract", i))
                  /\ IF resume_text = ""
                     THEN /\ resume_cache' = resume_cache
                          /\ result' = None
                     ELSE /\ resume_cache' =
                                [f \in DOMAIN resume_cache \cup {resume_path} |->
                                    IF f = resume_path THEN resume_text
                                    ELSE resume_cache[f]]
                          /\ result' = Text(resume_cache'[resume_path])
           ELSE /\ calls' = calls
                /\ resume_cache' = resume_cache
                /\ result' = Text(resume_cache[resume_path])
    /\ i' = i + 1
    /\ UNCHANGED <<candidate_resume_paths, job_description, min_score, pc, k,
                   all_candidates, selected_candidates, results, email_contents, error,
                   scheduled_call, email_content, response, screen_log, sel_row,
                   sched_log, email_log, draft_log, raw_text>>

CacheNext == LookupResume

CacheSpec == CacheInit /\ [][CacheNext]_vars

---------------------------------------------------------------------------
(* Properties *)

Last(seq) == seq[Len(seq)]

Rows == 1..Len(results)

Selected == 1..Len(sched_log)

\* the step made an external call
Called == calls' # calls

\* the step ended with a call of the screening capability
ScreenCallStep == Called /\ Last(calls').cap = "screen"

\* the step ended with an extraction, which therefore gave no text
ExtractFailedStep == Called /\ Last(calls').cap = "extract"

\* the external calls of phase 2 made for the candidate of row j
Phase2CallsFor(j) ==
    {n \in 1..Len(calls) :
        calls[n].cap \in {"schedule", "draft", "send"} /\ sel_row[calls[n].who] = j}

\* the run has returned the dict of lines 631-636
Returned == pc = "done" /\ error = None

\* C1: when process_candidates returns, every candidate with score >= min_score has
\* its row at selected, scheduled or email_sent, and every candidate with
\* score < min_score has its row at rejected with no interview_time, meeting_url or
\* email_subject, and no scheduling or email call was made for it; candidates may
\* share an email.
C1_ThresholdDecidesOutcome ==
    Returned =>
        \A j \in Rows :
            /\ all_candidates[j].score >= min_score =>
                   results[j].status \in {"selected", "scheduled", "email_sent"}
            /\ all_candidates[j].score < min_score =>
                   /\ results[j].status = "rejected"
                   /\ results[j].interview_time = None
                   /\ results[j].meeting_url = None
                   /\ results[j].email_subject = None
                   /\ Phase2CallsFor(j) = {}

Forward == {<<"selected", "scheduled">>, <<"selected", "email_sent">>,
            <<"scheduled", "email_sent">>}

\* C2: a row is created with status rejected or selected, and every later change of
\* a row's status moves it forward along selected -> scheduled -> email_sent;
\* candidates may share an email.
C2_StatusMovesForward ==
    [][/\ Len(results') >= Len(results)
       /\ \A j \in 1..Len(results') :
            IF j <= Len(results)
            THEN \/ results'[j].status = results[j].status
                 \/ <<results[j].status, results'[j].status>> \in Forward
            ELSE results'[j].status \in {"rejected", "selected"}]_vars

\* C3: with an empty resume path list or an empty job description,
\* process_candidates returns a non-empty error and four empty collections, and
\* makes no extraction, screening, scheduling, drafting or sending call.
C3_InvalidInputShortCircuits ==
    (candidate_resume_paths = <<>> \/ job_description = "") /\ pc # "start" =>
        /\ pc = "done"
        /\ error # None
        /\ error.message # ""
        /\ all_candidates = <<>>
        /\ selected_candidates = <<>>
        /\ results = <<>>
        /\ email_contents = <<>>
        /\ calls = <<>>

C3_Witness ==
    /\ pc = "done"
    /\ candidate_resume_paths # <<>>
    /\ job_description = ""
    /\ error = Error(NoJobDescriptionError)

\* C4: when screening returns a ScreeningResult (a structured or a raw response),
\* it is appended to all_candidates, one row with its fields is appended to results
\* with status rejected if score < min_score and selected otherwise, and it is
\* appended to selected_candidates exactly when score >= min_score.
C4_ScreenedCandidateIsClassified ==
    [][ScreenCallStep /\ response' \in {"structured", "raw"} =>
          /\ Len(all_candidates') = Len(all_candidates) + 1
          /\ SubSeq(all_candidates', 1, Len(all_candidates)) = all_candidates
          /\ LET r == Last(all_candidates')
             IN  /\ results' = Append(results,
                        [name |-> r.name, email |-> r.email, score |-> r.score,
                         feedback |-> r.feedback,
                         status |-> IF r.score < min_score THEN "rejected" ELSE "selected",
                         interview_time |-> None, meeting_url |-> None,
                         email_subject |-> None])
                 /\ selected_candidates' =
                        IF r.score >= min_score
                        THEN Append(selected_candidates, r)
                        ELSE selected_candidates]_vars

\* a candidate at the threshold has just been screened
C4_Witness ==
    /\ pc = "schedule"
    /\ Len(calls) = 2
    /\ results[1].score = min_score
    /\ results[1].status = "selected"
    /\ selected_candidates = <<all_candidates[1]>>

\* C5: when extraction yields empty text the screening capability is not invoked,
\* and when extraction fails or the screening capability raises or answers empty,
\* nothing is added to all_candidates, selected_candidates, results or
\* email_contents, no error is set, and the loop goes on to the next path.
C5_FailedScreeningIsDropped ==
    [][(ExtractFailedStep \/ (ScreenCallStep /\ response' \in {"empty", "raise"})) =>
          /\ ExtractFailedStep => Len(calls') = Len(calls) + 1
          /\ UNCHANGED <<all_candidates, selected_candidates, results, email_contents>>
          /\ error' = None
          /\ i' = i + 1
          /\ i < Len(candidate_resume_paths) => pc' = "screen"
          /\ pc' \in {"screen", "schedule", "done"}]_vars

\* the first path was dropped and the second was screened
C5_Witness ==
    /\ Len(screen_log) = 2
    /\ screen_log[1] \in {"extract_failed", "screen_failed"}
    /\ screen_log[2] = "screened"
    /\ Len(results) = 1

\* the step ended with a call of the scheduling capability that gave no result
ScheduleFailedStep ==
    Called /\ Last(calls').cap = "schedule" /\ response' \in {"empty", "raise"}

\* the calls of the capability cap made for the n-th selected candidate
CallsOf(log, cap, n) == {m \in 1..Len(log) : log[m] = Call(cap, n)}

\* C6: when schedule_interview returns None for a selected candidate, no drafting or
\* sending call is made for that candidate, no row is modified in that iteration,
\* and the candidate's row keeps status selected with interview_time and meeting_url
\* unset.
C6_ScheduleFailureKeepsSelected ==
    [][/\ ScheduleFailedStep => UNCHANGED results /\ k' = k + 1
       /\ pc' = "done" /\ error' = None =>
             \A n \in 1..Len(sched_log') :
                 sched_log'[n] = None =>
                     /\ CallsOf(calls', "draft", n) = {}
                     /\ CallsOf(calls', "send", n) = {}
                     /\ results'[sel_row'[n]].status = "selected"
                     /\ results'[sel_row'[n]].interview_time = None
                     /\ results'[sel_row'[n]].meeting_url = None]_vars

\* C7: when scheduling succeeds for a selected candidate and
\* send_interview_invitation returns None, the candidate's row ends with status
\* scheduled, with interview_time and meeting_url of the scheduled call, with
\* email_subject unset, and email_contents has no entry for the candidate's email.
C7_EmailFailureLeavesScheduled ==
    Returned =>
        \A n \in Selected :
            sched_log[n] # None /\ email_log[n] = None =>
                /\ results[sel_row[n]].status = "scheduled"
                /\ results[sel_row[n]].interview_time = sched_log[n].call_time
                /\ results[sel_row[n]].meeting_url = sched_log[n].url
                /\ results[sel_row[n]].email_subject = None
                /\ selected_candidates[n].email \notin DOMAIN email_contents

\* the selected candidates whose scheduling and email step both returned a result
Invited == {n \in Selected : sched_log[n] # None /\ email_log[n] \notin {None, NotRun}}

\* C8: for every candidate with score >= min_score whose scheduling step and email
\* step both return a result, the candidate's own row ends with status email_sent
\* and interview_time, meeting_url and email_subject set, and email_contents maps
\* the candidate's email to the subject and body of that candidate's email; with one
\* such candidate email_contents has exactly one entry.
C8_FullSuccessEndsEmailSent ==
    Returned =>
        /\ \A n \in Invited :
             /\ selected_candidates[n].score >= min_score
             /\ results[sel_row[n]].status = "email_sent"
             /\ results[sel_row[n]].interview_time # None
             /\ results[sel_row[n]].meeting_url # None
             /\ results[sel_row[n]].email_subject # None
             /\ selected_candidates[n].email \in DOMAIN email_contents
             /\ email_contents[selected_candidates[n].email] =
                    [subject |-> email_log[n].subject, body |-> email_log[n].body]
        /\ Cardinality(Invited) = 1 => Cardinality(DOMAIN email_contents) = 1

\* C9: if every screened candidate has score < min_score, selected_candidates and
\* email_contents are empty, every row has status rejected, and the scheduling,
\* drafting and sending capabilities are never invoked.
C9_AllBelowThresholdAllRejected ==
    (\A j \in 1..Len(all_candidates) : all_candidates[j].score < min_score) =>
        /\ selected_candidates = <<>>
        /\ email_contents = <<>>
        /\ \A j \in Rows : results[j].status = "rejected"
        /\ \A n \in 1..Len(calls) : calls[n].cap \notin {"schedule", "draft", "send"}
        /\ pc \notin {"schedule", "draft", "send"}

\* two candidates were screened, both below the threshold, and the run has returned
C9_Witness ==
    /\ Returned
    /\ Len(all_candidates) = 2
    /\ \A j \in 1..2 : all_candidates[j].score < min_score /\ results[j].status = "rejected"

\* C10: whatever the extractor and the four capabilities answer, no exception
\* escapes screen_candidate, schedule_interview or send_interview_invitation: each
\* returns None when its capability raises, and process_candidates goes on to
\* return its four collections.
C10_NoExceptionEscapes ==
    [][Called /\ response' = "raise" =>
          /\ pc' \in {"screen", "schedule", "done"}
          /\ Last(calls').cap = "screen" =>
                 Last(screen_log') = "screen_failed" /\ Len(screen_log') = i
          /\ Last(calls').cap = "schedule" =>
                 Last(sched_log') = None /\ Len(sched_log') = k
          /\ Last(calls').cap \in {"draft", "send"} =>
                 Last(email_log') = None /\ Len(email_log') = k]_vars

\* the sending capability raised and the run has returned
C10_Witness ==
    /\ Returned
    /\ response = "raise"
    /\ Last(calls).cap = "send"
    /\ Len(results) = Len(all_candidates)

\* the entries the capability cap was called for, in the order of the calls
Made(cap) ==
    LET made == SelectSeq(calls, LAMBDA c : c.cap = cap)
    IN  [m \in 1..Len(made) |-> made[m].who]

\* the entries 1..n of a stage, in order
Indices(n) == [m \in 1..n |-> m]

\* screening is called exactly once for each path entry whose text was obtained,
\* scheduling once for each selected candidate, drafting once for each candidate
\* whose scheduling returned a result, and none of them for anything else
OncePerStage ==
    /\ Made("screen") = SelectSeq(Indices(Len(screen_log)),
                                  LAMBDA j : screen_log[j] # "extract_failed")
    /\ Made("schedule") = Indices(Len(sched_log))
    /\ Made("draft") = SelectSeq(Indices(Len(draft_log)),
                                 LAMBDA n : sched_log[n] # None)
    /\ \A n \in 1..Len(draft_log) : draft_log[n] = "notrun" <=> sched_log[n] = None
    /\ Returned =>
           /\ Len(screen_log) = Len(candidate_resume_paths)
           /\ Len(sched_log) = Len(selected_candidates)
           /\ Len(draft_log) = Len(selected_candidates)
           /\ Len(email_log) = Len(selected_candidates)

\* C11 as stated: every capability call is made exactly once per candidate per
\* stage and never repeated: screening once for each path entry whose text was
\* obtained, scheduling once for each selected candidate, drafting once for each
\* candidate whose scheduling returned a result, and sending once for each candidate
\* whose email step ran.
C11_SentOncePerEmailStep ==
    /\ OncePerStage
    /\ Made("send") = SelectSeq(Indices(Len(email_log)),
                                LAMBDA n : email_log[n] # NotRun)

\* C11 amended: as C11, but the sending capability is called once for each candidate
\* whose drafting call returned a structured EmailContent, and not at all for a
\* candidate whose draft failed or came back as text.
C11_SentOncePerStructuredDraft ==
    /\ OncePerStage
    /\ pc # "send" =>
           Made("send") = SelectSeq(Indices(Len(draft_log)),
                                    LAMBDA n : draft_log[n] = "structured")
    /\ pc = "send" =>
           /\ draft_log[k] = "structured"
           /\ Made("send") = SelectSeq(Indices(Len(draft_log) - 1),
                                       LAMBDA n : draft_log[n] = "structured")

\* the first candidate's scheduling failed, the second's send failed, and the run
\* returned without repeating either
C11_Witness ==
    /\ Returned
    /\ Len(sched_log) = 2
    /\ sched_log[1] = None
    /\ draft_log[2] = "structured"
    /\ email_log[2] = None
    /\ Len(calls) = 7

\* the step gave a row status email_sent
MarkedEmailSent ==
    \E j \in 1..Len(results) :
        results'[j].status = "email_sent" /\ results[j].status # "email_sent"

\* the step ended send_interview_invitation with an EmailContent
ReturnedEmailContent ==
    email_log' # email_log /\ Last(email_log') \notin {None, NotRun}

\* C12: a row is given status email_sent only if the send capability was invoked
\* for that candidate and returned a non-null response; send_interview_invitation
\* returns an EmailContent only after a successful send call.
C12_EmailSentOnlyAfterSend ==
    [][MarkedEmailSent \/ ReturnedEmailContent =>
          Last(calls') = Call("send", k) /\ response' = "response"]_vars

\* the step called the screening, scheduling or drafting capability and the step of
\* the pipeline that made the call returned a result
StepReturnedResult ==
    /\ Last(calls').cap = "screen" =>
           /\ Last(screen_log') = "screened"
           /\ Len(all_candidates') = Len(all_candidates) + 1
           /\ Len(results') = Len(results) + 1
    /\ Last(calls').cap = "schedule" =>
           /\ Last(sched_log') # None
           /\ Len(sched_log') = k
           /\ pc' = "draft"
    /\ Last(calls').cap = "draft" =>
           /\ Len(email_log') = k
           /\ Last(email_log') \notin {None, NotRun}

\* the step called the screening, scheduling or drafting capability
FallbackCapabilityStep == Called /\ Last(calls').cap \in {"screen", "schedule", "draft"}

\* C13 as stated: in the screening, scheduling and drafting steps, whenever the
\* capability returns without raising and its result is not the expected structured
\* type, the step returns a usable (non-None) result and the candidate is not
\* dropped.
C13_UnstructuredAlwaysUsable ==
    [][FallbackCapabilityStep /\ response' \in {"raw", "empty"} =>
          StepReturnedResult]_vars

\* C13 amended: whenever the capability returns without raising a non-empty result
\* that is not the expected structured type, the step returns a usable (non-None)
\* result and the candidate is not dropped; an empty result makes the step return
\* None.
C13_TextAlwaysUsable ==
    [][/\ FallbackCapabilityStep /\ response' = "raw" => StepReturnedResult
       /\ FallbackCapabilityStep /\ response' = "empty" =>
              /\ Last(calls').cap = "screen" => Last(screen_log') = "screen_failed"
              /\ Last(calls').cap = "schedule" => Last(sched_log') = None
              /\ Last(calls').cap = "draft" => Last(email_log') = None]_vars

\* all three capabilities answered with text and the candidate went through
C13_Witness ==
    /\ Returned
    /\ all_candidates = <<ScreeningFallbacks[RawScreeningDee]>>
    /\ \E draw \in RandomDraws : sched_log = <<FallbackSchedule(all_candidates[1], draw)>>
    /\ draft_log = <<"raw">>
    /\ email_log[1] \notin {None, NotRun}
    /\ results[1].status = "email_sent"

\* the place of a call in the order of the claim: phase 1 in path order, then phase 2
\* in selection order, and schedule, draft, send within one candidate
Place(c) ==
    CASE c.cap = "extract" -> 4 * c.who
      [] c.cap = "screen" -> 4 * c.who + 1
      [] c.cap = "schedule" -> 4 * (Len(candidate_resume_paths) + c.who) + 1
      [] c.cap = "draft" -> 4 * (Len(candidate_resume_paths) + c.who) + 2
      [] c.cap = "send" -> 4 * (Len(candidate_resume_paths) + c.who) + 3

\* call b of the log is in the order of the claim: it has a later place than the
\* call before it (and so than every earlier call), a draft call comes after a
\* schedule call for the same candidate, and a send call after a draft call for it
InOrder(log, b) ==
    /\ b > 1 => Place(log[b - 1]) < Place(log[b])
    /\ log[b].cap = "schedule" => log[b].who \in 1..Len(selected_candidates)
    /\ log[b].cap = "draft" => \E a \in 1..(b - 1) : log[a] = Call("schedule", log[b].who)
    /\ log[b].cap = "send" => \E a \in 1..(b - 1) : log[a] = Call("draft", log[b].who)

\* C14: calls are made one at a time, each started after the one before has
\* answered: every step makes at most one capability call and holds its answer
\* when it ends; all screening calls are made in resume-path order and phase 1 is
\* over before the first scheduling call; phase 2 takes the candidates in the order
\* they were selected, and schedule, draft, send of one candidate are all made
\* before the next candidate's scheduling call.
C14_CallsAreSequential ==
    [][Called =>
          LET made == (Len(calls) + 1)..Len(calls')
              capability == {b \in made : calls'[b].cap # "extract"}
          IN  /\ SubSeq(calls', 1, Len(calls)) = calls
              /\ Cardinality(capability) <= 1
              /\ capability # {} => response' # "none"
              /\ \A b \in made : InOrder(calls', b)
              /\ Last(calls').cap \in {"schedule", "draft", "send"} =>
                     /\ Len(screen_log') = Len(candidate_resume_paths)
                     /\ Last(calls').who = k]_vars

\* two candidates went through screening, scheduling, drafting and sending
C14_Witness ==
    /\ Returned
    /\ Len(selected_candidates) = 2
    /\ Len(calls) = 10
    /\ Made("send") = <<1, 2>>

\* the step made the update of phase 2 (scheduling had succeeded and the email step
\* has returned)
UpdateStep == email_log' # email_log /\ Last(email_log') # NotRun

\* row j has an earlier row with the same email
Shadowed(j) == \E h \in 1..(j - 1) : results[h].email = results[j].email

\* C15: when a selected candidate's scheduling succeeds, the update of phase 2
\* writes exactly one row, the first row in results order whose email equals the
\* candidate's, whatever its status and whichever candidate it was created for; a
\* row that has an earlier row with the same email is never updated and keeps its
\* initial status.
C15_UpdateGoesToFirstMatch ==
    [][/\ UpdateStep =>
             LET candidate == selected_candidates[k]
                 first == CHOOSE j \in Rows :
                              /\ results[j].email = candidate.email
                              /\ ~Shadowed(j)
             IN  /\ Len(results') = Len(results)
                 /\ \A j \in Rows \ {first} : results'[j] = results[j]
                 /\ results'[first].interview_time = scheduled_call.call_time
                 /\ results'[first].meeting_url = scheduled_call.url
                 /\ results'[first].status =
                        IF Last(email_log') = None THEN "scheduled" ELSE "email_sent"
       /\ \A j \in Rows : Shadowed(j) =>
             /\ results'[j] = results[j]
             /\ results[j].status =
                    IF all_candidates[j].score < min_score THEN "rejected" ELSE "selected"
             /\ results[j].interview_time = None]_vars

\* two selected candidates share an email and both were scheduled: the first row
\* was written twice, the second never
C15_Witness ==
    /\ Returned
    /\ Len(results) = 2
    /\ results[1].email = results[2].email
    /\ Len(selected_candidates) = 2
    /\ sched_log[1] # None /\ sched_log[2] # None
    /\ results[2].status = "selected"
    /\ results[1].interview_time = sched_log[2].call_time
    /\ sched_log[1].call_time # sched_log[2].call_time

\* the step ended schedule_interview with a ScheduledCall
ScheduleStep == Called /\ Last(calls').cap = "schedule"

\* the call lies 1 to 7 days ahead at a full hour from 10 to 17 and has a zoom.us url
\* with a 9-digit meeting id
InSlotRange(call) ==
    /\ call.call_time.days \in 1..7
    /\ call.call_time.hour \in 10..17
    /\ call.call_time.minute = 0
    /\ call.url.base = "https://zoom.us/j/"
    /\ call.url.id \in 100000000..999999999

\* C16 as stated: every ScheduledCall returned by schedule_interview lies 1 to 7
\* days after the invocation at an hour in [10,17] with zero minutes and has a url
\* https://zoom.us/j/<n> with n in 100000000..999999999; on the fallback path its
\* name and email are the candidate's.
C16_EveryCallInSlotRange ==
    [][ScheduleStep /\ Last(sched_log') # None =>
          /\ InSlotRange(Last(sched_log'))
          /\ response' = "raw" =>
                 /\ Last(sched_log').name = selected_candidates[k].name
                 /\ Last(sched_log').email = selected_candidates[k].email]_vars

\* C16 amended: every ScheduledCall that schedule_interview builds on its fallback
\* path lies 1 to 7 days after the invocation at an hour in [10,17] with zero
\* minutes, has a url https://zoom.us/j/<n> with n in 100000000..999999999, and has
\* the candidate's name and email; a structured ScheduledCall of the scheduling
\* capability is returned as it is.
C16_FallbackCallInSlotRange ==
    [][ScheduleStep /\ Last(sched_log') # None =>
          /\ response' \in {"raw", "structured"}
          /\ response' = "raw" =>
                 /\ InSlotRange(Last(sched_log'))
                 /\ Last(sched_log').name = selected_candidates[k].name
                 /\ Last(sched_log').email = selected_candidates[k].email
          /\ response' = "structured" => Last(sched_log') \in StructuredCalls]_vars

\* the fallback has just built the first slot of the range for the candidate
C16_Witness ==
    /\ pc = "draft"
    /\ response = "raw"
    /\ scheduled_call.name = selected_candidates[k].name
    /\ scheduled_call.call_time = CallTime(1, 10, 0, "IST")
    /\ scheduled_call.url = ZoomUrl(100000000)

\* the fallback parse has returned
Parsed == pc = "returned"

\* what the three score patterns capture in the text, in the order of score_patterns
ScoreCaptures(t) ==
    LET lower == Lower(t)
    IN  <<KeywordCapture(lower, ScoreKeyword), SlashTenCapture(lower),
          KeywordCapture(lower, RatingKeyword)>>

\* the patterns that captured something
Matching(captures) == {n \in 1..3 : captures[n] # None}

\* C17: in the screening fallback, if the first matching score pattern captures a
\* value v, the score is v when v <= 10 and v / 10 when v > 10; if no pattern
\* matches, the score is 5.0.
C17_CaptureIsNormalised ==
    Parsed =>
        LET captures == ScoreCaptures(raw_text)
            matching == Matching(captures)
        IN  IF matching = {}
            THEN result.score = 500
            ELSE LET first == CHOOSE n \in matching : \A m \in matching : n <= m
                     v == ParseFloat(captures[first].group)
                 IN  /\ v <= 1000 => result.score = v
                     /\ v > 1000 => 10 * result.score = v

\* 'score 15' was parsed to 1.5 and 'Rating: 10' after it was not consulted
C17_Witness ==
    /\ Parsed
    /\ result.score = 150
    /\ ScoreCaptures(raw_text) = <<Match(<<"1","5">>), None, Match(<<"1","0">>)>>

\* the score a capture gives
Scaled(m) ==
    LET v == ParseFloat(m.group)
    IN  IF v > 1000 THEN v \div 10 ELSE v

\* C18: the score patterns are tried in the order 'score: X', 'X/10', 'rating: X',
\* and the score comes from the first pattern in that order that matches anywhere
\* in the text, also when a later pattern matches at an earlier position.
C18_PatternOrderDecides ==
    Parsed =>
        LET m == ScoreCaptures(raw_text)
        IN  /\ m[1] # None => result.score = Scaled(m[1])
            /\ m[1] = None /\ m[2] # None => result.score = Scaled(m[2])
            /\ m[1] = None /\ m[2] = None /\ m[3] # None => result.score = Scaled(m[3])

\* 'X/10' matches before the place where 'score: X' matches, with another value, and
\* the score is the one of 'score: X'
C18_Witness ==
    /\ Parsed
    /\ result.score = 600
    /\ LET t == Lower(raw_text)
           m == ScoreCaptures(raw_text)
       IN  /\ m[1] = Match(<<"6">>)
           /\ m[2] = Match(<<"9">>)
           /\ \E a, b \in 1..Len(t) :
                  /\ a < b
                  /\ SlashTenEnd(t, a) # 0
                  /\ KeywordMatchesAt(t, ScoreKeyword, b)
                  /\ \A j \in 1..(b - 1) : ~KeywordMatchesAt(t, ScoreKeyword, j)

\* the lines among lines that hold "name:" in any case
NameLines(lines) == {n \in 1..Len(lines) : Contains(Lower(lines[n]), NamePattern)}

\* C19: a response text with no line holding "name:" (in any case) and no match of a
\* score pattern gives name "Unknown Candidate" and score 5.0; when a line holds
\* "name:", the name is the trimmed text after the first colon of the first such
\* line.
C19_NameAndScoreDefaults ==
    Parsed =>
        LET lines == SplitLines(raw_text)
            named == NameLines(lines)
        IN  /\ named = {} /\ Matching(ScoreCaptures(raw_text)) = {} =>
                   result.name = "Unknown Candidate" /\ result.score = 500
            /\ named # {} =>
                   LET n == CHOOSE x \in named : \A y \in named : x <= y
                       line == lines[n]
                       colon == CHOOSE x \in 1..Len(line) :
                                    line[x] = ":" /\ \A y \in 1..(x - 1) : line[y] # ":"
                   IN  result.name = Join(Strip(SubSeq(line, colon + 1, Len(line))))

\* the first name line has a colon before "name:": the name starts after that one
C19_Witness ==
    /\ Parsed
    /\ result.name = "name:  Cy"
    /\ LET lines == SplitLines(raw_text)
       IN  /\ Len(lines) = 2
           /\ lines[1] = <<"R","e",":"," ","n","a","m","e",":"," "," ","C","y"," ">>
           /\ NameLines(lines) = {1, 2}

\* the places of the text where the email pattern matches
EmailStarts(t) == {s \in 1..Len(t) : EmailMatchesAt(t, s)}

\* C20: the fallback email is the first match of the email pattern in the response
\* text if there is one; otherwise the name, lowercased and with spaces replaced by
\* dots, followed by @example.com, so that a text with no name line and no email
\* gives unknown.candidate@example.com.
C20_EmailMatchedOrSynthesised ==
    Parsed =>
        LET starts == EmailStarts(raw_text)
            name == FallbackName(raw_text)
        IN  /\ starts # {} =>
                   LET s == CHOOSE x \in starts : \A y \in starts : x <= y
                   IN  /\ result.email = Join(EmailMatch(raw_text).group)
                       /\ \E e \in s..Len(raw_text) :
                              result.email = Join(SubSeq(raw_text, s, e))
            /\ starts = {} =>
                   /\ result.name = Join(name)
                   /\ result.email = Join(Lower(SpacesToDots(name)) \o ExampleDomain)
            /\ starts = {} /\ NameLines(SplitLines(raw_text)) = {} =>
                   result.email = "unknown.candidate@example.com"

\* a name with a capital and a space and no email in the text
C20_Witness ==
    /\ Parsed
    /\ result.name = "Al B"
    /\ result.email = "al.b@example.com"
    /\ EmailStarts(raw_text) = {}

\* the draft fallback has returned
Drafted == pc = "drafted"

\* the body the claim describes for the draft text
ClaimedBody ==
    IF Len(raw_text) > 50
    THEN Text(Join(raw_text))
    ELSE [template |-> "Dear {name}, ... John Doe",
          name |-> selected_candidates[k].name,
          call_time |-> scheduled_call.call_time,
          url |-> scheduled_call.url]

\* C21 as stated: in the draft fallback the body is the raw text verbatim when it is
\* longer than 50 characters and otherwise the fixed template with the candidate's
\* name, the call_time and the url; the subject is the text captured by the subject
\* pattern if it matches and the fixed generic subject otherwise; the step returns
\* this EmailContent.
C21_BodyAndCapturedSubject ==
    Drafted =>
        LET subject_match == SubjectCapture(raw_text)
        IN  /\ result # None
            /\ result.body = ClaimedBody
            /\ result.subject =
                   IF subject_match # None
                   THEN Text(Join(subject_match.group))
                   ELSE Text("Interview Invitation - Backend Engineer Position")

\* C21 amended: as C21, but the subject is the text captured by the subject pattern
\* with the white space at its ends stripped.
C21_BodyAndStrippedSubject ==
    Drafted =>
        LET subject_match == SubjectCapture(raw_text)
        IN  /\ result # None
            /\ result.body = ClaimedBody
            /\ result.subject =
                   IF subject_match # None
                   THEN Text(Join(Strip(subject_match.group)))
                   ELSE Text("Interview Invitation - Backend Engineer Position")

\* a text of exactly 50 characters without a subject gave the template and the
\* generic subject
C21_Witness ==
    /\ Drafted
    /\ Len(raw_text) = 50
    /\ result.subject = Text(DefaultSubject)
    /\ result.body.name = selected_candidates[k].name
    /\ result.body.call_time = scheduled_call.call_time

\* the paths whose extraction was called for in the calls of the log from a place on
ExtractedPaths(log, from) ==
    {candidate_resume_paths[log[n].who] :
        n \in {m \in from..Len(log) : log[m].cap = "extract"}}

\* one reference to a path: a cached path is not extracted and its cached text is
\* used; a path that is not cached is extracted, and is cached if and only if the
\* text is not empty
CacheStep ==
    LET resume_path == candidate_resume_paths[i]
    IN  IF resume_path \in DOMAIN resume_cache
        THEN /\ calls' = calls
             /\ resume_cache' = resume_cache
             /\ result' = Text(resume_cache[resume_path])
        ELSE /\ Len(calls') = Len(calls) + 1
             /\ ExtractedPaths(calls', Len(calls')) = {resume_path}
             /\ \A f \in DOMAIN resume_cache :
                   f \in DOMAIN resume_cache' /\ resume_cache'[f] = resume_cache[f]
             /\ \/ /\ result' = None
                   /\ DOMAIN resume_cache' = DOMAIN resume_cache
                \/ /\ result' # None
                   /\ DOMAIN resume_cache' = DOMAIN resume_cache \cup {resume_path}
                   /\ result' = Text(resume_cache'[resume_path])

\* C22: within one run the resume cache never holds an empty text: a path is stored
\* only after an extraction that gave a text that is not empty, after which the
\* extractor is never called again for that path and the cached text is used; a path
\* whose extraction gave the empty text is not cached and is extracted again on every
\* later reference to it.
C22_CacheHoldsOnlyExtractedText ==
    /\ [](\A f \in DOMAIN resume_cache : resume_cache[f] # "")
    /\ [][CacheStep]_vars

\* one path named three times: the first extraction gave nothing, the second gave a
\* text, the third reference used that text without a call
C22_Witness ==
    /\ Len(candidate_resume_paths) = 3
    /\ i = 4
    /\ \A n \in 1..3 : candidate_resume_paths[n] = "a.pdf"
    /\ Len(calls) = 2
    /\ "a.pdf" \in DOMAIN resume_cache
    /\ result = Text(resume_cache["a.pdf"])

\* the statuses of a row that has gone through the update of phase 2
Interviewing == {"scheduled", "email_sent"}

\* C24: at every point of a run, a row of results has interview_time and meeting_url
\* set if and only if its status is scheduled or email_sent; a row with status
\* selected or rejected never carries interview details.
C24_DetailsIffInterviewing ==
    \A j \in Rows :
        /\ results[j].interview_time # None <=> results[j].status \in Interviewing
        /\ results[j].meeting_url # None <=> results[j].status \in Interviewing

\* the run has returned with one row scheduled, carrying its time and url, and another
\* row left at selected without them
C24_Witness ==
    /\ Returned
    /\ \E j \in Rows :
          /\ results[j].status = "scheduled"
          /\ results[j].interview_time # None
          /\ results[j].meeting_url # None
    /\ \E j \in Rows : results[j].status = "selected" /\ results[j].interview_time = None

\* C25: when process_candidates returns, a row of results has email_subject set if
\* and only if its status is email_sent, and email_contents has a row's email as a key
\* if and only if some row with that email has status email_sent.
C25_SubjectIffEmailSent ==
    Returned =>
        \A j \in Rows :
            /\ results[j].email_subject # None <=> results[j].status = "email_sent"
            /\ results[j].email \in DOMAIN email_contents
                   <=> \E n \in Rows : /\ results[n].email = results[j].email
                                       /\ results[n].status = "email_sent"

\* the row and the candidate carry the same name, email, score and feedback
SameIdentity(row, candidate) ==
    /\ row.name = candidate.name
    /\ row.email = candidate.email
    /\ row.score = candidate.score
    /\ row.feedback = candidate.feedback

\* the path entries that were screened with a result, in path order
Screened == SelectSeq(screen_log, LAMBDA outcome : outcome = "screened")

\* C26: at every point of a run, results and all_candidates have the same length and
\* the i-th row has the name, email, score and feedback of the i-th entry of
\* all_candidates, both in path order of the candidates that were screened with a
\* result (one entry for each, appended at the end); selected_candidates is exactly
\* the subsequence of all_candidates with score >= min_score, in the same order.
C26_RowsFollowCandidates ==
    /\ [](/\ Len(results) = Len(all_candidates)
          /\ Len(all_candidates) = Len(Screened)
          /\ \A j \in Rows : SameIdentity(results[j], all_candidates[j])
          /\ selected_candidates =
                 SelectSeq(all_candidates, LAMBDA c : c.score >= min_score))
    /\ [][all_candidates' # all_candidates =>
              /\ ScreenCallStep
              /\ \E c \in {Last(all_candidates')} :
                     all_candidates' = Append(all_candidates, c)]_vars

\* the run has returned: the first candidate was rejected, the second was selected
\* and is the only selected one, and a row was written in phase 2
C26_Witness ==
    /\ Returned
    /\ Len(all_candidates) = 2
    /\ all_candidates[1].score < min_score
    /\ selected_candidates = <<all_candidates[2]>>
    /\ \E j \in Rows : results[j].status = "email_sent"

\* the run is in phase 2
InPhase2 == pc \in {"schedule", "draft", "send"}

\* C27: phase 2 never adds or removes a row of results, never changes the name,
\* email, score or feedback of a row, and never changes all_candidates or
\* selected_candidates; it only writes status, interview_time, meeting_url and
\* email_subject of rows and adds entries to email_contents.
C27_Phase2WritesOnlyProgress ==
    [][InPhase2 =>
          /\ Len(results') = Len(results)
          /\ \A j \in Rows : SameIdentity(results'[j], results[j])
          /\ all_candidates' = all_candidates
          /\ selected_candidates' = selected_candidates
          /\ DOMAIN email_contents \subseteq DOMAIN email_contents'
          /\ UNCHANGED <<candidate_resume_paths, job_description, min_score, error>>]_vars

\* phase 2 is over for two candidates of one email with different names: it wrote a
\* row and an entry of email_contents
C27_Witness ==
    /\ Returned
    /\ Len(selected_candidates) = 2
    /\ selected_candidates[1].email = selected_candidates[2].email
    /\ selected_candidates[1].name # selected_candidates[2].name
    /\ results[1].status = "email_sent"
    /\ DOMAIN email_contents # {}

\* the outcomes of screen_log that drop the path entry
Dropped == {"extract_failed", "screen_failed"}

\* C28: the result of process_candidates has an error key if and only if the path
\* list or the job description was empty; when both are empty the error is the one
\* for the missing resume files; a run in which every candidate is dropped at
\* extraction or screening returns four empty collections and no error key.
C28_ErrorIffInvalidInput ==
    pc = "done" =>
        /\ error # None <=> (candidate_resume_paths = <<>> \/ job_description = "")
        /\ candidate_resume_paths = <<>> /\ job_description = ""
               => error = Error("No candidate resume files provided")
        /\ (/\ Len(screen_log) = Len(candidate_resume_paths)
            /\ \A n \in 1..Len(screen_log) : screen_log[n] \in Dropped)
               => (/\ candidate_resume_paths # <<>> => error = None
                   /\ all_candidates = <<>>
                   /\ selected_candidates = <<>>
                   /\ results = <<>>
                   /\ email_contents = <<>>)

\* a run of two path entries, one dropped at extraction and one at screening, has
\* returned without an error
C28_Witness ==
    /\ pc = "done"
    /\ screen_log = <<"extract_failed", "screen_failed">>
    /\ error = None
    /\ results = <<>>

\* the entries in 1..n, each at most once and in rising order
OnceEach(made, n) ==
    /\ \A m \in 1..Len(made) : made[m] \in 1..n
    /\ \A m \in 1..(Len(made) - 1) : made[m] < made[m + 1]

\* C29: for every finite path list, if every extractor and capability call returns
\* or raises, process_candidates returns; it makes at most one screening call for
\* each path entry and at most one scheduling, one drafting and one sending call for
\* each entry of selected_candidates.
C29_ReturnsAfterBoundedCalls ==
    /\ <>(pc = "done")
    /\ [](/\ OnceEach(Made("screen"), Len(candidate_resume_paths))
          /\ OnceEach(Made("schedule"), Len(selected_candidates))
          /\ OnceEach(Made("draft"), Len(selected_candidates))
          /\ OnceEach(Made("send"), Len(selected_candidates)))

\* the run has returned after one call of each capability for each of two selected
\* candidates
C29_Witness ==
    /\ Returned
    /\ Len(selected_candidates) = 2
    /\ Made("screen") = <<1, 2>>
    /\ Made("schedule") = <<1, 2>>
    /\ Made("draft") = <<1, 2>>
    /\ Made("send") = <<1, 2>>

\* C30: every score the screening fallback produces lies in the range 0 to 10 after
\* the normalization, for every numeric value the score patterns can capture (scores
\* are in hundredths, so 10 is 1000).
C30_FallbackScoreInRange ==
    Parsed => result.score >= 0 /\ result.score <= 1000

====
